---- MODULE Spec2Model ----
(***************************************************************************)
(* Model of async-compression's brotli stream encoder.                     *)
(*                                                                         *)
(* src/stream/brotli/encoder.rs holds the algorithm-specific wrapper       *)
(* BrotliEncoder<S>: constructors, accessors and a poll_next that          *)
(* delegates to crate::stream::generic::Encoder<S, codec::BrotliEncoder>.  *)
(* The generic adapter and the codec live in other files of the crate;     *)
(* they are modelled from sections 4.1 and 4.2 of the specification.       *)
(*                                                                         *)
(* One consumer pull (one call of poll_next) is one action.  The inner     *)
(* stream is a script of the items its successive polls return; the codec  *)
(* is a deterministic byte transformer with internal buffering.            *)
(***************************************************************************)
EXTENDS Integers, Sequences, FiniteSets, TLC

VARIABLES
    self,      \* the BrotliEncoder value (wrapper around the generic Encoder)
    results,   \* history: what each poll_next returned to the consumer
    hist,      \* history: per poll_next, the inner polls and codec calls it made
    other,     \* a second BrotliEncoder: another splitting, or the other constructor
    oresults,  \* history of the second encoder's poll_next results
    ohist,     \* history of the second encoder's inner polls and codec calls
    taken,     \* what into_inner returned, once the encoder has been consumed
    given      \* what the constructor of `self` was given: the stream and level

vars == <<self, results, hist, other, oresults, ohist, taken, given>>

(***************************************************************************)
(* Bounds of the model.                                                    *)
(***************************************************************************)
MaxItems == 3      \* items a stream script holds before it is exhausted
MaxPulls == 16     \* pulls the consumer makes on one encoder at most
MaxExtra == 3      \* pulls the consumer makes after a first end-of-sequence

(***************************************************************************)
(* Byte sequences.                                                         *)
(***************************************************************************)
Bytes == {0, 1}

Min(a, b) == IF a < b THEN a ELSE b

Take(s, n) == SubSeq(s, 1, Min(n, Len(s)))

Drop(s, n) == SubSeq(s, Min(n, Len(s)) + 1, Len(s))

RECURSIVE Flatten(_)
Flatten(ss) == IF ss = <<>> THEN <<>> ELSE Head(ss) \o Flatten(Tail(ss))

(***************************************************************************)
(* The inner stream S: Stream<Item = Result<Bytes>>.  A script lists what   *)
(* its successive polls return: Poll::Pending, Some(Ok(chunk)),            *)
(* Some(Err(e)) or None.  An exhausted script returns None on every poll.  *)
(* A script may hold items after a None or an error: the Stream trait      *)
(* does not promise a fused stream.                                        *)
(***************************************************************************)
Chunks == {<<>>, <<1>>, <<0, 1>>, <<1, 1, 0>>}

Item(k, d) == [kind |-> k, data |-> d]

Pending == Item("Pending", <<>>)

None == Item("None", <<>>)

ErrInner == Item("ErrInner", <<>>)

ErrCodec == Item("ErrCodec", <<>>)

Chunk(d) == Item("Chunk", d)

StreamItems == {Chunk(d) : d \in Chunks} \cup {Pending, None, ErrInner}

Scripts == UNION {[1..n -> StreamItems] : n \in 0..MaxItems}

\* S::poll_next: the item returned and the stream afterwards
stream_poll_next(stream) ==
    IF stream = <<>> THEN [item |-> None, stream |-> <<>>]
    ELSE [item |-> Head(stream), stream |-> Tail(stream)]

(***************************************************************************)
(* The codec, crate::codec::BrotliEncoder (specification 4.1).  It is      *)
(* opaque to the adapter; the model gives it a concrete stream format so   *)
(* that a round trip through the matching decoder can fail: each input     *)
(* byte is written as its sum with the previous input byte (the codec      *)
(* keeps state across calls and chunk boundaries), and finish appends an   *)
(* end-of-stream mark, as the brotli format closes every stream, the empty *)
(* one included, with a final block.                                       *)
(***************************************************************************)
Radix == Cardinality(Bytes)

EndMark == Radix

Levels == {0, 5, 11}

\* brotli2::CompressParams::new(): the default parameter set
CompressParams_new == [quality |-> 11, lgwin |-> 22]

\* CompressParams::quality(level)
quality(params, level) == [params EXCEPT !.quality = level]

\* What the environment makes the codec do beyond its format: the number of
\* the codec call that fails with a CodecError (0: none), and how many of
\* the first finish calls return no output without being done.
NoFaults == [failAt |-> 0, stall |-> 0]

FailAts == {0, 1, 3}

Stalls == {0, 2}

Plans == [failAt : FailAts, stall : Stalls]

\* configure(params) -> CodecInstance: a fresh instance, no I/O
codec_new(params) ==
    [quality  |-> params.quality,
     prev     |-> 0,        \* last input byte absorbed
     pend     |-> <<>>,     \* encoded bytes buffered inside the codec
     calls    |-> 0,        \* encode and finish calls made so far
     finished |-> FALSE,    \* the end-of-stream mark has been written
     stalled  |-> 0,        \* finish calls that have stalled so far
     plan     |-> NoFaults]

\* input bytes one encode call absorbs at most
Absorb(q) == IF q < 5 THEN 1 ELSE 2

\* whether encode hands out buffered bytes: low levels stream, the top level
\* keeps everything until finish
Emits(q, n) == IF q < 5 THEN n >= 1 ELSE IF q < 11 THEN n >= 3 ELSE FALSE

RECURSIVE Transform(_, _)
Transform(bytes, prev) ==
    IF bytes = <<>> THEN <<>>
    ELSE <<(Head(bytes) + prev) % Radix>> \o Transform(Tail(bytes), Head(bytes))

\* encode(instance, input, output_buffer) -> Status
encode(c, input, cap) ==
    LET n     == Min(Len(input), Absorb(c.quality))
        eaten == Take(input, n)
        pend1 == c.pend \o Transform(eaten, c.prev)
        m     == IF Emits(c.quality, Len(pend1)) THEN Min(cap, Len(pend1)) ELSE 0
        c1    == [c EXCEPT !.calls = @ + 1]
    IN IF c1.calls = c.plan.failAt
       THEN [codec |-> c1, consumed |-> 0, out |-> <<>>, err |-> TRUE]
       ELSE [codec    |-> [c1 EXCEPT !.prev = IF n = 0 THEN @ ELSE eaten[n],
                                     !.pend = Drop(pend1, m)],
             consumed |-> n,
             out      |-> Take(pend1, m),
             err      |-> FALSE]

\* finish(instance, output_buffer) -> Status
finish(c, cap) ==
    LET c1    == [c EXCEPT !.calls = @ + 1]
        pend1 == IF c.finished THEN c.pend ELSE Append(c.pend, EndMark)
        m     == Min(cap, Len(pend1))
    IN IF c1.calls = c.plan.failAt
       THEN [codec |-> c1, out |-> <<>>, done |-> FALSE, err |-> TRUE]
       ELSE IF c.stalled < c.plan.stall
       THEN [codec |-> [c1 EXCEPT !.stalled = @ + 1],
             out |-> <<>>, done |-> FALSE, err |-> FALSE]
       ELSE [codec |-> [c1 EXCEPT !.finished = TRUE, !.pend = Drop(pend1, m)],
             out   |-> Take(pend1, m),
             done  |-> Len(pend1) = m,
             err   |-> FALSE]

\* The matching decoder, run over a whole compressed stream: the input bytes
\* when the stream is well formed and closed by the mark, an error otherwise.
RECURSIVE DecodeFrom(_, _)
DecodeFrom(enc, prev) ==
    IF enc = <<>> THEN [ok |-> FALSE, data |-> <<>>]
    ELSE IF Head(enc) = EndMark THEN [ok |-> Tail(enc) = <<>>, data |-> <<>>]
    ELSE LET b == (Head(enc) - prev + Radix) % Radix
             r == DecodeFrom(Tail(enc), b)
         IN [ok |-> r.ok, data |-> <<b>> \o r.data]

Decode(enc) == DecodeFrom(enc, 0)

(***************************************************************************)
(* The generic stream adapter, crate::stream::generic::Encoder             *)
(* (specification 4.2).                                                    *)
(***************************************************************************)
OutputCapacity == 2

\* Encoder::new(stream, codec)
Encoder_new(stream, codec) ==
    [stream  |-> stream,
     encoder |-> codec,
     state   |-> "ReadingInput",
     input   |-> <<>>]

Event(op, flag, data) == [op |-> op, flag |-> flag, data |-> data]

Continue == Item("Continue", <<>>)

Step(e, ev, ret) == [enc |-> e, events |-> ev, result |-> ret]

\* From ReadingInput: pull the inner sequence
ReadingInput(e, ev) ==
    LET p   == stream_poll_next(e.stream)
        e1  == [e EXCEPT !.stream = p.stream]
        ev1 == Append(ev, Event("poll", p.item.kind, p.item.data))
    IN CASE p.item.kind = "Pending"  -> Step(e1, ev1, Pending)
         [] p.item.kind = "Chunk"    ->
                Step([e1 EXCEPT !.state = "Encoding", !.input = p.item.data],
                     ev1, Continue)
         [] p.item.kind = "ErrInner" ->
                Step([e1 EXCEPT !.state = "Done"], ev1, ErrInner)
         [] p.item.kind = "None"     ->
                Step([e1 EXCEPT !.state = "Flushing"], ev1, Continue)

\* From Encoding: feed the codec the unconsumed input remainder
Encoding(e, ev) ==
    LET r    == encode(e.encoder, e.input, OutputCapacity)
        rest == Drop(e.input, r.consumed)
        e1   == [e EXCEPT !.encoder = r.codec, !.input = rest]
        ev1  == Append(ev, Event("encode", IF r.err THEN "err" ELSE "ok", r.out))
    IN IF r.err THEN Step([e1 EXCEPT !.state = "Done"], ev1, ErrCodec)
       ELSE IF r.out # <<>> THEN Step(e1, ev1, Chunk(r.out))
       ELSE IF rest = <<>> THEN Step([e1 EXCEPT !.state = "ReadingInput"], ev1, Continue)
       ELSE Step(e1, ev1, Continue)

\* From Flushing: drain the codec's finish output
Flushing(e, ev) ==
    LET r   == finish(e.encoder, OutputCapacity)
        e1  == [e EXCEPT !.encoder = r.codec,
                         !.state = IF r.err \/ r.done THEN "Done" ELSE @]
        ev1 == Append(ev, Event("finish",
                   IF r.err THEN "err" ELSE IF r.done THEN "done" ELSE "more", r.out))
    IN IF r.err THEN Step(e1, ev1, ErrCodec)
       ELSE IF r.out # <<>> THEN Step(e1, ev1, Chunk(r.out))
       ELSE Step(e1, ev1, Continue)

\* From Done: end-of-sequence, nothing else
Done(e, ev) == Step(e, ev, None)

\* one turn of the adapter's loop
Encoder_step(e, ev) ==
    CASE e.state = "ReadingInput" -> ReadingInput(e, ev)
      [] e.state = "Encoding"     -> Encoding(e, ev)
      [] e.state = "Flushing"     -> Flushing(e, ev)
      [] e.state = "Done"         -> Done(e, ev)

RECURSIVE Encoder_loop(_, _)
Encoder_loop(e, ev) ==
    LET s == Encoder_step(e, ev)
    IN IF s.result = Continue THEN Encoder_loop(s.enc, s.events) ELSE s

\* <Encoder as Stream>::poll_next: loop until there is something to return
Encoder_poll_next(e) == Encoder_loop(e, <<>>)

\* Encoder::into_inner
Encoder_into_inner(e) == e.stream

(***************************************************************************)
(* The wrapper, src/stream/brotli/encoder.rs.                              *)
(***************************************************************************)
\* from_params as it would be if it primed the encoder: the first item of
\* the stream is polled at construction and dropped
from_params_eager(stream, params) ==
    [inner |-> Encoder_new(stream_poll_next(stream).stream, codec_new(params))]

\* BrotliEncoder::from_params(stream, params)
from_params(stream, params) ==
    [inner |-> Encoder_new(stream, codec_new(params))]

\* new as it would be without the call of params.quality(level): the
\* default parameters are used whatever the level
new_default(stream, level) ==
    LET params == CompressParams_new
    IN from_params(stream, params)

\* BrotliEncoder::new(stream, level)
new(stream, level) ==
    LET params == quality(CompressParams_new, level)
    IN from_params(stream, params)

\* BrotliEncoder::get_ref
get_ref(this) == this.inner.stream

\* into_inner as it would be if the input held by the encoder were put back
\* in front of the stream
into_inner_unread(this) ==
    IF this.inner.input = <<>> THEN this.inner.stream
    ELSE <<Chunk(this.inner.input)>> \o this.inner.stream

\* BrotliEncoder::into_inner
into_inner(this) == Encoder_into_inner(this.inner)

\* poll_next as it would be with the projection followed through to the
\* wrapped stream (inner.get_pin_mut().poll_next(cx) has the same type): the
\* stream's items are handed on and the generic encoder is never run
poll_next_bypass(this) ==
    LET p == stream_poll_next(this.inner.stream)
    IN [this   |-> [this EXCEPT !.inner.stream = p.stream],
        result |-> p.item,
        events |-> <<Event("poll", p.item.kind, p.item.data)>>]

\* <BrotliEncoder as Stream>::poll_next: the generic encoder's poll_next on
\* the projected field; `this` afterwards, what it returns, and the calls made
poll_next(this) ==
    LET r == Encoder_poll_next(this.inner)
    IN [this |-> [this EXCEPT !.inner = r.enc], result |-> r.result, events |-> r.events]

\* the environment's fault plan, attached to the codec of a built encoder
Arm(this, plan) == [this EXCEPT !.inner.encoder.plan = plan]

(***************************************************************************)
(* The system: a consumer pulling one encoder, which it may consume with   *)
(* into_inner; and, for comparing two splittings of one byte stream, a     *)
(* second encoder pulled after the first has ended.                        *)
(***************************************************************************)
Unused == [inner |-> "unused"]

NotTaken == [consumed |-> FALSE, stream |-> <<>>]

Init ==
    /\ \E stream \in Scripts, level \in Levels, plan \in Plans :
          /\ self = Arm(new(stream, level), plan)
          /\ given = [stream |-> stream, level |-> level]
    /\ results = <<>>
    /\ hist = <<>>
    /\ other = Unused
    /\ oresults = <<>>
    /\ ohist = <<>>
    /\ taken = NotTaken

\* the consumer keeps pulling until it has seen end-of-sequence and has
\* pulled MaxExtra more times
MayPull(rs) ==
    /\ Len(rs) < MaxPulls
    /\ Cardinality({i \in DOMAIN rs : rs[i].kind = "None"}) <= MaxExtra

\* the consumer pulls: one call of BrotliEncoder::poll_next
Pull ==
    /\ ~taken.consumed
    /\ MayPull(results)
    /\ LET r == poll_next(self)
       IN /\ self' = r.this
          /\ results' = Append(results, r.result)
          /\ hist' = Append(hist, r.events)
    /\ UNCHANGED <<other, oresults, ohist, taken, given>>

\* the consumer gives the encoder up for its stream: BrotliEncoder::into_inner.
\* `self` is moved; the model keeps its last value and allows no further call.
IntoInner ==
    /\ ~taken.consumed
    /\ taken' = [consumed |-> TRUE, stream |-> into_inner(self)]
    /\ UNCHANGED <<self, results, hist, other, oresults, ohist, given>>

Next == Pull \/ IntoInner

Spec == Init /\ [][Next]_vars

(***************************************************************************)
(* Two encoders of the same level are given two splittings of one byte     *)
(* stream into chunks; the second is pulled once the consumer is through   *)
(* with the first.                                                         *)
(***************************************************************************)
Payloads == {<<>>, <<1>>, <<0, 1>>, <<1, 1, 0>>, <<0, 1, 1, 0>>}

\* the ends of the n chunks a byte string of length len is cut into
Cuts(n, len) ==
    {c \in [1..n -> 0..len] :
        /\ \A i \in 1..(n - 1) : c[i] <= c[i + 1]
        /\ IF n = 0 THEN len = 0 ELSE c[n] = len}

\* the stream that yields bytes in the chunks ending at c
SplitAt(bytes, c) ==
    [i \in DOMAIN c |->
        Chunk(SubSeq(bytes, (IF i = 1 THEN 0 ELSE c[i - 1]) + 1, c[i]))]

Splittings(bytes) ==
    UNION {{SplitAt(bytes, c) : c \in Cuts(n, Len(bytes))} : n \in 0..MaxItems}

InitSplit ==
    /\ \E bytes \in Payloads, level \in Levels, stall \in Stalls :
          \E s1 \in Splittings(bytes), s2 \in Splittings(bytes) :
              /\ self = Arm(new(s1, level), [NoFaults EXCEPT !.stall = stall])
              /\ given = [stream |-> s1, level |-> level]
              /\ other = Arm(new(s2, level), [NoFaults EXCEPT !.stall = stall])
    /\ results = <<>>
    /\ hist = <<>>
    /\ oresults = <<>>
    /\ ohist = <<>>
    /\ taken = NotTaken

\* the consumer pulls the first encoder until it is through with it, then
\* the second: one call of BrotliEncoder::poll_next on either
PullEither ==
    \E first \in BOOLEAN :
        /\ first = MayPull(results)
        /\ first \/ MayPull(oresults)
        /\ LET r == poll_next(IF first THEN self ELSE other)
           IN IF first
              THEN /\ self' = r.this
                   /\ results' = Append(results, r.result)
                   /\ hist' = Append(hist, r.events)
                   /\ UNCHANGED <<other, oresults, ohist>>
              ELSE /\ other' = r.this
                   /\ oresults' = Append(oresults, r.result)
                   /\ ohist' = Append(ohist, r.events)
                   /\ UNCHANGED <<self, results, hist>>
        /\ UNCHANGED <<taken, given>>

NextSplit == PullEither

SpecSplit == InitSplit /\ [][NextSplit]_vars

\* one stream and one level given to both forms of construction: new, and
\* from_params with the default parameters set to that level
InitForms ==
    /\ \E stream \in Scripts, level \in Levels, plan \in Plans :
          /\ self = Arm(new(stream, level), plan)
          /\ given = [stream |-> stream, level |-> level]
          /\ other = Arm(from_params(stream, quality(CompressParams_new, level)), plan)
    /\ results = <<>>
    /\ hist = <<>>
    /\ oresults = <<>>
    /\ ohist = <<>>
    /\ taken = NotTaken

SpecForms == InitForms /\ [][NextSplit]_vars

(***************************************************************************)
(* What the histories say.                                                 *)
(***************************************************************************)
IsErr(r) == r.kind \in {"ErrInner", "ErrCodec"}

Ended(rs) == \E i \in DOMAIN rs : rs[i] = None

Failed(rs) == \E i \in DOMAIN rs : IsErr(rs[i])

\* the data of the chunks among the results, in order
RECURSIVE ChunksOf(_)
ChunksOf(rs) ==
    IF rs = <<>> THEN <<>>
    ELSE IF Head(rs).kind = "Chunk" THEN <<Head(rs).data>> \o ChunksOf(Tail(rs))
    ELSE ChunksOf(Tail(rs))

\* every inner poll and codec call made so far, in order
Calls == Flatten(hist)

\* the same with the return of each poll_next put after its calls
Log == Flatten([i \in DOMAIN hist |->
                  Append(hist[i], Event("ret", results[i].kind, results[i].data))])

RECURSIVE DataWhere(_, _, _)
DataWhere(evs, ops, nonEmptyOnly) ==
    IF evs = <<>> THEN <<>>
    ELSE LET e == Head(evs)
             keep == e.op \in ops /\ (nonEmptyOnly => e.data # <<>>)
                          /\ (e.op = "poll" => e.flag = "Chunk")
         IN (IF keep THEN <<e.data>> ELSE <<>>) \o DataWhere(Tail(evs), ops, nonEmptyOnly)

\* the chunks the inner stream has handed over
InputChunksOf(h) == DataWhere(Flatten(h), {"poll"}, FALSE)

InputChunks == InputChunksOf(hist)

\* the compressed bytes yielded so far
Output(rs) == Flatten(ChunksOf(rs))

\* the non-empty outputs of the codec's encode and finish calls
CodecOutputs == DataWhere(Calls, {"encode", "finish"}, TRUE)

FinishOutputs == DataWhere(Calls, {"finish"}, TRUE)

Positions(log, op) == {k \in DOMAIN log : log[k].op = op}

RetNone == Event("ret", "None", <<>>)

PollNone == Event("poll", "None", <<>>)

(***************************************************************************)
(* C1.  Idempotent termination.                                            *)
(***************************************************************************)
\* C1: once a poll_next has returned end-of-sequence, every later poll_next
\* returns end-of-sequence: never a chunk, never an error, never Pending.
IdempotentTermination ==
    \A i, j \in DOMAIN results :
        (i < j /\ results[i] = None) => results[j] = None

\* end-of-sequence followed by three more pulls, on an inner stream that
\* still has items to give
W_IdempotentTermination ==
    \E i \in DOMAIN results :
        /\ results[i] = None
        /\ Len(results) >= i + 3
        /\ self.inner.stream # <<>>

(***************************************************************************)
(* C2.  The codec's finish and the end of the adapter.                     *)
(***************************************************************************)
\* C2 as stated: in a run in which the inner stream has signalled
\* end-of-sequence and the adapter has ended, finish was invoked exactly
\* once, after the inner stream's end-of-sequence and before the adapter's.
FinishExactlyOnce ==
    (Ended(results) /\ \E p \in DOMAIN Log : Log[p] = PollNone) =>
        /\ Cardinality(Positions(Log, "finish")) = 1
        /\ \A f \in Positions(Log, "finish") :
              /\ \E p \in DOMAIN Log : p < f /\ Log[p] = PollNone
              /\ \A k \in DOMAIN Log : Log[k] = RetNone => f < k

\* C2 amended: every finish call comes after the inner stream's
\* end-of-sequence and before the adapter's own, with no inner poll and no
\* encode call between two finish calls; and in a run in which the inner
\* stream has signalled end-of-sequence and the adapter has ended, finish
\* was invoked one or more times, the last call being the only one that
\* reported done or failed.
FinishUntilDone ==
    LET fin == Positions(Log, "finish")
    IN /\ \A f \in fin :
             /\ \E p \in DOMAIN Log : p < f /\ Log[p] = PollNone
             /\ \A k \in DOMAIN Log : Log[k] = RetNone => f < k
             /\ \A k \in DOMAIN Log : (k > f /\ Log[k].op \in {"poll", "encode"}) =>
                    \A g \in fin : g < k
       /\ (Ended(results) /\ \E p \in DOMAIN Log : Log[p] = PollNone) =>
             \E f \in fin :
                 /\ Log[f].flag \in {"done", "err"}
                 /\ \A g \in fin : g <= f /\ (Log[g].flag # "more" => g = f)

\* a run ended without error in which finish took three calls
W_FinishUntilDone ==
    /\ Ended(results)
    /\ ~Failed(results)
    /\ Cardinality(Positions(Log, "finish")) >= 3

(***************************************************************************)
(* C3.  No retry after the end or an error.                                *)
(***************************************************************************)
\* C3: once a poll_next has returned end-of-sequence or an error, no later
\* poll_next polls the inner stream or calls the codec's encode or finish.
NoCallsAfterTerminal ==
    \A i, j \in DOMAIN results :
        (i < j /\ (results[i] = None \/ IsErr(results[i]))) => hist[j] = <<>>

\* a codec error followed by another pull, the inner stream not exhausted
W_NoCallsAfterTerminal ==
    \E i \in DOMAIN results :
        /\ results[i] = ErrCodec
        /\ Len(results) > i
        /\ self.inner.stream # <<>>

(***************************************************************************)
(* C4.  Errors are surfaced exactly once.                                  *)
(***************************************************************************)
\* C4: when a poll_next returns an error the adapter is in Done afterwards,
\* and every later poll_next returns end-of-sequence: not the error again,
\* and no chunk.
ErrorSurfacedOnce ==
    \A i \in DOMAIN results :
        IsErr(results[i]) =>
            /\ self.inner.state = "Done"
            /\ \A j \in DOMAIN results : j > i => results[j] = None

\* an inner-stream error followed by two more pulls, the stream not exhausted
W_ErrorSurfacedOnce ==
    \E i \in DOMAIN results :
        /\ results[i] = ErrInner
        /\ Len(results) >= i + 2
        /\ self.inner.stream # <<>>

(***************************************************************************)
(* C5.  Round-trip fidelity.                                               *)
(***************************************************************************)
\* C5: when the input chunks have ended without error and the encoder has
\* yielded end-of-sequence, the concatenation of the chunks it yielded,
\* passed through the matching decoder, is the concatenation of the input
\* chunks.
RoundTrip ==
    (Ended(results) /\ ~Failed(results)) =>
        Decode(Output(results)) = [ok |-> TRUE, data |-> Flatten(InputChunks)]

\* a clean end after three input chunks, one of them empty, compressed into
\* two or more chunks
W_RoundTrip ==
    /\ Ended(results)
    /\ ~Failed(results)
    /\ Len(InputChunks) = 3
    /\ \E i \in DOMAIN InputChunks : InputChunks[i] = <<>>
    /\ Len(Flatten(InputChunks)) >= 3
    /\ Len(ChunksOf(results)) >= 2

(***************************************************************************)
(* C6.  Chunk-boundary independence.                                       *)
(***************************************************************************)
\* C6: two encoders fed two splittings of the same byte stream, both run to
\* a clean end, yield compressed streams that decode to identical bytes.
SplitIndependence ==
    (/\ Ended(results) /\ ~Failed(results)
     /\ Ended(oresults) /\ ~Failed(oresults)
     /\ Flatten(InputChunks) = Flatten(InputChunksOf(ohist))) =>
        /\ Decode(Output(results)).ok
        /\ Decode(Output(results)) = Decode(Output(oresults))

\* both ended cleanly on the same bytes, given as one chunk to the first
\* encoder and as three chunks to the second
W_SplitIndependence ==
    /\ Ended(results) /\ ~Failed(results)
    /\ Ended(oresults) /\ ~Failed(oresults)
    /\ Flatten(InputChunks) = Flatten(InputChunksOf(ohist))
    /\ Len(Flatten(InputChunks)) >= 2
    /\ Len(InputChunks) = 1
    /\ Len(InputChunksOf(ohist)) >= 3

(***************************************************************************)
(* C7.  Empty input.                                                       *)
(***************************************************************************)
\* the inner stream's first poll returned end-of-sequence
EmptyInput == hist # <<>> /\ hist[1] # <<>> /\ hist[1][1] = PollNone

OutputOrdering ==
    /\ ChunksOf(results) = CodecOutputs
    /\ \A i \in DOMAIN results :
          DataWhere(hist[i], {"encode", "finish"}, TRUE) =
              IF results[i].kind = "Chunk" THEN <<results[i].data>> ELSE <<>>

\* three chunks or more yielded, from encode and from finish, one of them by
\* a pull that made a codec call without output first
W_OutputOrdering ==
    /\ Len(ChunksOf(results)) >= 3
    /\ DataWhere(Calls, {"encode"}, TRUE) # <<>>
    /\ FinishOutputs # <<>>
    /\ \E i \in DOMAIN results :
          /\ results[i].kind = "Chunk"
          /\ \E k \in DOMAIN hist[i] :
                hist[i][k].op \in {"encode", "finish"} /\ hist[i][k].data = <<>>

(***************************************************************************)
(* C9.  No truncation on flush.                                            *)
(***************************************************************************)
IsSuffix(t, s) ==
    Len(t) <= Len(s) /\ SubSeq(s, Len(s) - Len(t) + 1, Len(s)) = t

\* C9: when the adapter has ended without error, finish was called until it
\* reported done, the codec holds no byte back, and every chunk finish
\* produced was yielded, in order, as the last chunks before end-of-sequence.
NoTruncationOnFlush ==
    (Ended(results) /\ ~Failed(results)) =>
        /\ \E f \in DOMAIN Calls : Calls[f].op = "finish" /\ Calls[f].flag = "done"
        /\ self.inner.encoder.finished
        /\ self.inner.encoder.pend = <<>>
        /\ IsSuffix(FinishOutputs, ChunksOf(results))
        /\ Output(results)[Len(Output(results))] = EndMark

\* a clean end whose flush exceeded one buffer: finish produced three chunks
W_NoTruncationOnFlush ==
    /\ Ended(results)
    /\ ~Failed(results)
    /\ Len(FinishOutputs) >= 3

(***************************************************************************)
(* C10.  Suspension is transparent.                                        *)
(***************************************************************************)
Last(s) == s[Len(s)]

\* C10: a poll_next returns Pending only straight after the inner stream's
\* poll returned Pending, with the adapter in ReadingInput, no input
\* remainder, and the codec touched by nothing but the calls made before
\* that poll; when the suspending poll is all the pull did, nothing of the
\* adapter but the position of the inner stream has changed (state, input
\* remainder and codec are as before); and the pull after a Pending resumes
\* there: it polls the inner stream first and goes on to encode the chunk
\* it gets (when it holds bytes), or to finish at end-of-sequence, in the
\* same pull.
SuspensionTransparent ==
    [][ /\ (results' # results /\ Last(results') = Pending) =>
              LET ev == Last(hist')
              IN /\ Last(ev) = Event("poll", "Pending", <<>>)
                 /\ self'.inner.state = "ReadingInput"
                 /\ self'.inner.input = <<>>
                 /\ self'.inner.encoder.calls = self.inner.encoder.calls +
                       Cardinality({k \in DOMAIN ev : ev[k].op \in {"encode", "finish"}})
                 /\ Len(ev) = 1 =>
                       self'.inner = [self.inner EXCEPT !.stream = self'.inner.stream]
        /\ (results' # results /\ results # <<>> /\ Last(results) = Pending) =>
              LET ev == Last(hist')
              IN /\ ev # <<>>
                 /\ ev[1].op = "poll"
                 /\ (ev[1].flag = "Chunk" /\ ev[1].data # <<>>) =>
                       (Len(ev) >= 2 /\ ev[2].op = "encode")
                 /\ ev[1].flag = "None" => (Len(ev) >= 2 /\ ev[2].op = "finish")
      ]_vars

\* a pull suspended with bytes buffered in the codec, and the next pull took
\* a chunk from the inner stream and yielded compressed bytes
W_SuspensionTransparent ==
    \E i \in DOMAIN results :
        /\ results[i] = Pending
        /\ i < Len(results)
        /\ \E j \in 1..(i - 1) : \E k \in DOMAIN hist[j] : hist[j][k].flag = "Chunk"
        /\ hist[i + 1][1].flag = "Chunk"
        /\ results[i + 1].kind = "Chunk"

(***************************************************************************)
(* C11.  Only the inner stream suspends a pull.                            *)
(***************************************************************************)
PollPending == Event("poll", "Pending", <<>>)

\* C11: a poll_next returns Pending only when the last thing it did was a
\* poll of the inner stream that returned Pending, never straight after an
\* encode or finish call; a pull that starts in Flushing or in Done (the
\* inner stream has signalled end-of-sequence, or the adapter has yielded
\* end-of-sequence or an error) never returns Pending; and a pull that
\* starts in Encoding with input left calls encode before anything else.
SuspendsOnlyOnInner ==
    [][ results' # results =>
          LET ev == Last(hist')
          IN /\ Last(results') = Pending =>
                   (ev # <<>> /\ Last(ev) = PollPending)
             /\ (\/ self.inner.state \in {"Flushing", "Done"}
                 \/ \E k \in DOMAIN Calls : Calls[k] = PollNone
                 \/ Ended(results)
                 \/ Failed(results)) => Last(results') # Pending
             /\ (self.inner.state = "Encoding" /\ self.inner.input # <<>>) =>
                   (ev # <<>> /\ ev[1].op = "encode")
      ]_vars

\* a pull went on past finish calls that produced nothing and yielded a
\* chunk, and a later pull started in Flushing and in Encoding
W_SuspendsOnlyOnInner ==
    \E i \in DOMAIN results :
        /\ \E k \in DOMAIN hist[i] : hist[i][k] = Event("finish", "more", <<>>)
        /\ results[i].kind = "Chunk"
        /\ \E j \in (i + 1)..Len(results) :
               hist[j] # <<>> /\ hist[j][1].op = "finish"
        /\ \E j \in 1..i : hist[j] # <<>> /\ hist[j][1].op = "encode"

(***************************************************************************)
(* C12.  Termination.                                                      *)
(***************************************************************************)
\* whether the consumer can pull: what ENABLED <<Pull>>_vars comes to, a
\* pull always adding a result
PullEnabled == ~taken.consumed /\ MayPull(results)

\* weak fairness of Pull, written out over PullEnabled
KeepsPulling == []<>(~PullEnabled) \/ []<><<Pull>>_vars

\* a consumer that keeps the encoder and keeps pulling it
SpecLive == Init /\ [][Pull]_vars /\ KeepsPulling

\* C12: when the consumer keeps pulling, the adapter reaches Done and the
\* consumer receives end-of-sequence, whatever finite sequence of chunks
\* and suspensions the inner stream delivers and however often finish
\* reports more to come without producing output.
Termination == <>(Ended(results) /\ self.inner.state = "Done")

\* a clean end after the inner stream suspended and after finish twice
\* produced nothing before it reported done
W_Termination ==
    /\ Ended(results)
    /\ ~Failed(results)
    /\ self.inner.state = "Done"
    /\ \E i \in DOMAIN results : results[i] = Pending
    /\ Cardinality({k \in DOMAIN Calls :
                       Calls[k] = Event("finish", "more", <<>>)}) >= 2

(***************************************************************************)
(* C13.  The state machine only moves forward.                             *)
(***************************************************************************)
Rank(state) ==
    CASE state \in {"ReadingInput", "Encoding"} -> 0
      [] state = "Flushing"                     -> 1
      [] state = "Done"                         -> 2

\* the state in which the adapter made a call
StateOf(op) ==
    CASE op = "poll"   -> "ReadingInput"
      [] op = "encode" -> "Encoding"
      [] op = "finish" -> "Flushing"

\* C13: across a poll_next the state never moves back (ReadingInput and
\* Encoding, then Flushing, then Done); a pull from Done makes no call,
\* yields end-of-sequence and stays in Done; and within the pull, the first
\* call is the one of the state the pull started in, finish follows only
\* finish or the inner stream's end-of-sequence (which finish always
\* follows), encode and poll follow only one another, a poll follows only
\* an encode that left no output, and the state after the pull is past that
\* of the last call, or that same state.
ForwardOnly ==
    [][ results' # results =>
          LET ev == Last(hist')
              s  == self.inner.state
              t  == self'.inner.state
          IN /\ Rank(t) >= Rank(s)
             /\ s = "Done" => (ev = <<>> /\ t = "Done" /\ Last(results') = None)
             /\ s = "Flushing" => t \in {"Flushing", "Done"}
             /\ s # "Done" => (ev # <<>> /\ StateOf(ev[1].op) = s)
             /\ ev # <<>> => Rank(t) >= Rank(StateOf(Last(ev).op))
             /\ (t = "Flushing" /\ s # "Flushing") =>
                   \E k \in DOMAIN ev : ev[k] = PollNone
             /\ \A k \in DOMAIN ev :
                   /\ ev[k] = PollNone => (k < Len(ev) /\ ev[k + 1].op = "finish")
                   /\ (ev[k].op = "poll" /\ ev[k].flag = "Chunk") =>
                         (k < Len(ev) /\ ev[k + 1].op = "encode")
                   /\ (ev[k].op = "poll" /\ ev[k].flag \in {"Pending", "ErrInner"}) =>
                         k = Len(ev)
                   /\ (k > 1 /\ ev[k].op = "finish") =>
                         (ev[k - 1].op = "finish" \/ ev[k - 1] = PollNone)
                   /\ (k > 1 /\ ev[k].op = "encode") =>
                         ev[k - 1].op \in {"encode", "poll"}
                   /\ (k > 1 /\ ev[k].op = "poll") =>
                         ev[k - 1] = Event("encode", "ok", <<>>)
      ]_vars

\* one pull went from Encoding through ReadingInput to Flushing and stayed
\* there, a later pull went from Flushing to Done, and a pull was made from
\* Done
W_ForwardOnly ==
    /\ self.inner.state = "Done"
    /\ ~Failed(results)
    /\ \E i \in DOMAIN results :
          /\ hist[i] # <<>>
          /\ hist[i][1].op = "encode"
          /\ Last(hist[i]).op = "finish"
          /\ Last(hist[i]).flag = "more"
          /\ i + 2 <= Len(results)
          /\ results[i + 1].kind = "Chunk"
          /\ Last(results) = None
          /\ Last(hist) = <<>>

(***************************************************************************)
(* C14.  Input backpressure.                                               *)
(***************************************************************************)
\* the bytes the codec has been given: those it has handed out and those it
\* still buffers, less the end-of-stream mark it added
Encoded ==
    Len(Flatten(CodecOutputs)) + Len(self.inner.encoder.pend)
        - (IF self.inner.encoder.finished THEN 1 ELSE 0)

\* C14: the adapter polls the inner stream only with no input remainder and
\* no codec output pending: a poll inside a pull comes straight after an
\* encode call that produced nothing, a poll that opens a pull comes first
\* of all or after a pull that returned Pending, and in ReadingInput the
\* input remainder is empty; it holds at most one chunk: the remainder is
\* the tail of the last chunk polled, and every byte polled before it has
\* gone to the codec.
InputBackpressure ==
    /\ self.inner.state = "ReadingInput" => self.inner.input = <<>>
    /\ \A i \in DOMAIN hist : \A k \in DOMAIN hist[i] :
          hist[i][k].op = "poll" =>
              IF k > 1 THEN hist[i][k - 1] = Event("encode", "ok", <<>>)
              ELSE i > 1 => results[i - 1] = Pending
    /\ IF InputChunks = <<>> THEN self.inner.input = <<>>
       ELSE IsSuffix(self.inner.input, Last(InputChunks))
    /\ Len(Flatten(InputChunks)) = Encoded + Len(self.inner.input)

\* one chunk was drained over two pulls that each yielded compressed bytes,
\* and only then was the inner stream polled again, for a second chunk
W_InputBackpressure ==
    \E i \in DOMAIN results :
        /\ i + 2 <= Len(results)
        /\ \E k \in DOMAIN hist[i] : hist[i][k].flag = "Chunk"
        /\ results[i].kind = "Chunk"
        /\ hist[i + 1] # <<>>
        /\ \A k \in DOMAIN hist[i + 1] : hist[i + 1][k].op = "encode"
        /\ results[i + 1].kind = "Chunk"
        /\ \E k \in DOMAIN hist[i + 2] :
              hist[i + 2][k].op = "poll" /\ hist[i + 2][k].flag = "Chunk"

(***************************************************************************)
(* C15.  No empty chunk is yielded.                                        *)
(***************************************************************************)
\* C15: every chunk poll_next yields holds at least one byte and is the
\* output of the pull's last codec call; an encode or finish call that
\* produced nothing (and did not fail) is never the last call of a pull
\* that yields a chunk: the pull goes on to another call, or, when it was
\* the finish call that reported done, returns end-of-sequence.
NoEmptyChunk ==
    \A i \in DOMAIN results :
        /\ results[i].kind = "Chunk" =>
              /\ results[i].data # <<>>
              /\ hist[i] # <<>>
              /\ Last(hist[i]).op \in {"encode", "finish"}
              /\ Last(hist[i]).data = results[i].data
        /\ \A k \in DOMAIN hist[i] :
              (/\ hist[i][k].op \in {"encode", "finish"}
               /\ hist[i][k].flag # "err"
               /\ hist[i][k].data = <<>>) =>
                  IF hist[i][k] = Event("finish", "done", <<>>)
                  THEN k = Len(hist[i]) /\ results[i] = None
                  ELSE k < Len(hist[i])

\* the inner stream handed over an empty chunk, encode was called on it and
\* produced nothing, the pull went on, and a chunk was yielded later
W_NoEmptyChunk ==
    \E i \in DOMAIN results : \E k \in DOMAIN hist[i] :
        /\ hist[i][k] = Event("poll", "Chunk", <<>>)
        /\ k + 2 <= Len(hist[i])
        /\ hist[i][k + 1] = Event("encode", "ok", <<>>)
        /\ \E j \in i..Len(results) : results[j].kind = "Chunk"

(***************************************************************************)
(* C16.  The wrapper passes poll_next through.                             *)
(***************************************************************************)
\* C16: each BrotliEncoder::poll_next returns what the generic encoder's
\* poll_next returns when run on the wrapped encoder as it stood before the
\* call, makes the calls that one makes, and leaves the wrapped encoder as
\* that one leaves it; the wrapper has no field but the wrapped encoder.
PassThrough ==
    [][ results' # results =>
          LET r == Encoder_poll_next(self.inner)
          IN /\ Last(results') = r.result
             /\ Last(hist') = r.events
             /\ self' = [inner |-> r.enc]
      ]_vars

\* the wrapper has handed on a suspension, then a chunk, then a codec error
W_PassThrough ==
    \E i, j, k \in DOMAIN results :
        /\ i < j
        /\ j < k
        /\ results[i] = Pending
        /\ results[j].kind = "Chunk"
        /\ results[k] = ErrCodec

(***************************************************************************)
(* C17.  Construction performs no I/O.                                     *)
(***************************************************************************)
\* C17: before the consumer's first poll_next the encoder built by new
\* (through from_params) has made no call, holds the stream it was given,
\* not polled, is in ReadingInput with no input remainder, and its codec
\* has been called by nobody and buffers nothing; and the first call ever
\* made is the first pull's poll of the inner stream, which returns the
\* first item of the stream given at construction.
ConstructionNoIO ==
    /\ results = <<>> =>
          /\ hist = <<>>
          /\ self.inner.stream = given.stream
          /\ self.inner.state = "ReadingInput"
          /\ self.inner.input = <<>>
          /\ self.inner.encoder.calls = 0
          /\ self.inner.encoder.pend = <<>>
          /\ ~self.inner.encoder.finished
    /\ results # <<>> =>
          /\ hist[1] # <<>>
          /\ hist[1][1].op = "poll"
          /\ Item(hist[1][1].flag, hist[1][1].data) =
                stream_poll_next(given.stream).item

\* the first pull polled the first chunk of the stream given at
\* construction and encoded it
W_ConstructionNoIO ==
    /\ Len(results) = 1
    /\ given.stream # <<>>
    /\ given.stream[1].kind = "Chunk"
    /\ given.stream[1].data # <<>>
    /\ Len(hist[1]) >= 2
    /\ hist[1][1].data = given.stream[1].data
    /\ hist[1][2].op = "encode"
    /\ self.inner.encoder.calls >= 1

(***************************************************************************)
(* C18.  Both forms of construction configure the codec alike.             *)
(***************************************************************************)
\* C18: new(stream, level) builds the encoder that from_params builds from
\* the same stream and the default parameters with quality set to level:
\* the two are equal when built, their codec has quality level, and pulled
\* alike on the same stream they return the same results after the same
\* calls and end up equal.
SameConfiguration ==
    /\ self.inner.encoder.quality = given.level
    /\ other.inner.encoder.quality = given.level
    /\ (results = <<>> /\ oresults = <<>>) => self = other
    /\ Len(oresults) <= Len(results)
    /\ \A i \in DOMAIN oresults : oresults[i] = results[i] /\ ohist[i] = hist[i]
    /\ Len(oresults) = Len(results) => self = other

\* both encoders, built at a level that is not the default one, have been
\* pulled to a clean end and have yielded the same compressed bytes
W_SameConfiguration ==
    /\ given.level # CompressParams_new.quality
    /\ Ended(results) /\ ~Failed(results)
    /\ oresults = results
    /\ Len(Output(oresults)) >= 3

(***************************************************************************)
(* C19.  into_inner gives the stream back where it stands.                 *)
(***************************************************************************)
\* the polls of the inner stream made so far
Polls == {k \in DOMAIN Calls : Calls[k].op = "poll"}

\* C19: into_inner returns the wrapped stream as the encoder holds it (what
\* get_ref refers to): the stream given at construction less the items
\* polled so far, nothing put back; it makes no call of the stream or the
\* codec and yields nothing, so the input remainder and the bytes buffered
\* in the codec are not in what it returns.
IntoInnerGivesStream ==
    taken.consumed =>
        /\ taken.stream = get_ref(self)
        /\ taken.stream =
              Drop(given.stream, Cardinality(Polls))
        /\ Len(Calls) = Cardinality(Polls) + self.inner.encoder.calls
        /\ Len(results) = Len(hist)

\* the encoder was consumed between two pulls while it held an input
\* remainder and its codec held encoded bytes, with items left in the stream
W_IntoInnerGivesStream ==
    /\ taken.consumed
    /\ taken.stream # <<>>
    /\ self.inner.input # <<>>
    /\ self.inner.encoder.pend # <<>>
    /\ results # <<>>

====
